---- MODULE Spec2Model ----
(***************************************************************************)
(* Model of the plan-execute-aggregate pipeline of WorkspaceGPT            *)
(* (backend/main_chroma.py) with its collaborators: the Planner's          *)
(* validation, the Retriever and Executor dispatchers, and the context log *)
(* (backend/context/context_manager.py).                                   *)
(*                                                                         *)
(* One orchestrator instance processes queries one after the other.  A     *)
(* query run is cut at the points the specification names: planning, one   *)
(* executing step per plan step, summarizing, done.  What the language     *)
(* model and the vector store answer is chosen nondeterministically.       *)
(*                                                                         *)
(* Texts that are compared structurally (the `content` parameter) are      *)
(* sequences of tokens; a JSON object is a function from its keys.         *)
(***************************************************************************)
EXTENDS Integers, Sequences, FiniteSets, TLC

\* ------------------------------------------------------------------ bounds
MaxSteps   == 2    \* longest plan the planner produces
MaxEntries == 4    \* context entries logged by one orchestrator, all runs together
MaxDocs    == 2    \* chunks (one per document) a search can return
MaxChunks  == 3    \* chunks in the index the Retriever is called on directly
MaxK       == 2    \* largest k of a direct call on the Retriever
MaxQueries == 2    \* queries of one search_multiple_queries call
MaxCreations == 3  \* create_task and generate_report calls of interleaved threads
MaxLines   == 2    \* lines of the text create_checklist reads its items from
MaxContexts == 2   \* contexts created by direct calls on the ContextManager

\* --------------------------------------------------------------- utilities
EmptyMap == <<>>

Put(m, k, v) == [x \in (DOMAIN m) \cup {k} |-> IF x = k THEN v ELSE m[x]]

Del(m, k) == [x \in (DOMAIN m) \ {k} |-> m[x]]

Has(m, k) == k \in DOMAIN m

Get(m, k, default) == IF Has(m, k) THEN m[k] ELSE default

RECURSIVE Flatten(_)
Flatten(ss) == IF ss = <<>> THEN <<>> ELSE Head(ss) \o Flatten(Tail(ss))

\* ------------------------------------------------------------ vector store
\* The index holds one chunk per document, ranked doc1, doc2, ...
DocName(d) ==
    IF d = 1 THEN "doc1.pdf" ELSE IF d = 2 THEN "doc2.pdf"
    ELSE IF d = 3 THEN "doc3.pdf" ELSE "doc4.pdf"

DocText(d) ==
    IF d = 1 THEN "alpha" ELSE IF d = 2 THEN "beta" ELSE IF d = 3 THEN "gamma" ELSE "delta"

\* A chunk of the index split_documents built: content and metadata.
Chunk(d) == [content |-> DocText(d), source_file |-> DocName(d), chunk_id |-> d]

\* A chunk add_document put into the index: its metadata has no chunk_id.
AddedChunk(d) == [content |-> DocText(d), source_file |-> DocName(d)]

\* An element of what similarity_search returns; scores are in hundredths.
Hit(chunk, score) == Put(chunk, "similarity_score", score)

\* similarity_search: the top-n chunks, n = 0 .. MaxDocs
Hits == {[r \in 1..n |-> Hit(Chunk(r), 100 - 10 * r)] : n \in 0..MaxDocs}

\* What the outside world answers during one step: the vector store faults
\* or returns hits; the language model faults or answers.
Outcomes == [fault : BOOLEAN, hits : Hits, llm_fault : BOOLEAN]

\* ----------------------------------------------------------------- planner
\* A step of the planner's JSON: `present` are the keys the object carries
\* among step_number, agent, action, description; pkind says whether the
\* "parameters" key is absent, holds an object ("map") or holds a value that
\* is no object ("null").  is_object is false for an element of `steps` that
\* is no JSON object (a number, say).
StepFields == {"step_number", "agent", "action", "description"}

MkStep(agent, action, pkind, parameters) ==
    [is_object |-> TRUE, present |-> StepFields, step_number |-> 0, agent |-> agent,
     action |-> action, description |-> "do " \o action, pkind |-> pkind,
     parameters |-> parameters]

NotAStep ==
    [MkStep("", "", "absent", EmptyMap) EXCEPT !.is_object = FALSE, !.present = {}]

QueryParams == [query |-> "onboarding"]

StepChoices ==
    { MkStep("Retriever", "search", "map", QueryParams),
      MkStep("Retriever", "search_by_document", "map",
             [query |-> "onboarding", source_file |-> "doc2.pdf"]),
      MkStep("Retriever", "get_documents", "absent", EmptyMap),
      MkStep("Retriever", "delete_everything", "map", EmptyMap),
      MkStep("Retriever", "get_documents", "null", EmptyMap),
      MkStep("Executor", "summarize", "map", EmptyMap),
      MkStep("Executor", "analyze_content", "map", [content |-> <<"given">>]),
      MkStep("Executor", "create_checklist", "absent", EmptyMap),
      MkStep("Executor", "create_task", "map", [task_type |-> "Follow up"]),
      MkStep("Executor", "create_task", "map",
             [title |-> "Call", task_type |-> "Follow up"]),
      MkStep("Executor", "generate_report", "map", [title |-> "Report"]),
      MkStep("Executor", "generate_report", "map",
             [title |-> "Report", sections |-> <<[title |-> "Intro", content |-> "text"]>>]),
      MkStep("Executor", "send_email", "absent", EmptyMap) }

\* Steps validation refuses.
BadSteps ==
    { MkStep("Planner", "search", "map", QueryParams),
      [MkStep("Executor", "summarize", "map", EmptyMap)
          EXCEPT !.present = StepFields \ {"description"}] }

PlanFields == {"analysis", "steps", "expected_outcome"}

MkPlan(fields, is_list, steps) ==
    [fields |-> fields, steps_is_list |-> is_list, steps |-> steps]

NoPlan == MkPlan({}, FALSE, <<>>)

StepSeqs(S, n) == UNION {[1..m -> S] : m \in 1..n}

\* The objects the language model's answer can parse to, with at most n steps.
Numbered(ss) == [n \in DOMAIN ss |-> [ss[n] EXCEPT !.step_number = n]]

\* Plans the model numbered otherwise: a search and a create_task in turn,
\* the step_number values with gaps, decreasing, or all the same.
InTurn(len) ==
    [m \in 1..len |->
        IF m % 2 = 1 THEN MkStep("Retriever", "search", "map", QueryParams)
        ELSE MkStep("Executor", "create_task", "map", [title |-> "Call"])]

Numberings(len) ==
    {[m \in 1..len |-> 3 * m], [m \in 1..len |-> len + 1 - m], [m \in 1..len |-> 7]}

Renumbered(ss, f) == [m \in DOMAIN ss |-> [ss[m] EXCEPT !.step_number = f[m]]]

OddlyNumbered(n) ==
    UNION {{MkPlan(PlanFields, TRUE, Renumbered(InTurn(len), f)) : f \in Numberings(len)} :
           len \in 1..n}

ValidPlans(n) ==
    {MkPlan(PlanFields, TRUE, Numbered(ss)) : ss \in StepSeqs(StepChoices, n)}
    \cup OddlyNumbered(n)

InvalidPlans(n) ==
    { MkPlan(PlanFields \ {"steps"}, FALSE, <<>>),
      MkPlan(PlanFields \ {"analysis"}, TRUE, <<MkStep("Retriever", "search", "map", QueryParams)>>),
      MkPlan(PlanFields, FALSE, <<>>),
      MkPlan(PlanFields, TRUE, <<>>) }
    \cup {MkPlan(PlanFields, TRUE, <<b>>) : b \in BadSteps \cup {NotAStep}}
    \cup (IF n >= 2
          THEN {MkPlan(PlanFields, TRUE, <<MkStep("Retriever", "search", "map", QueryParams), b>>) :
                    b \in BadSteps \cup {NotAStep}}
               \cup {MkPlan(PlanFields, TRUE, <<MkStep("Planner", "search", "map", QueryParams),
                                                NotAStep>>)}
          ELSE {})

\* The model's answer.  kind: the call faults ("api_error"); the text is no
\* JSON and holds none ("garbage"); the whole text is the JSON of obj
\* ("json"); the JSON of obj with other text around it ("wrapped"); the JSON
\* of a list whose one element is obj ("listed").  padded: the text starts or
\* ends with white space.
Response(kind, obj, padded) == [kind |-> kind, obj |-> obj, padded |-> padded]

NoResponse == Response("none", NoPlan, FALSE)

AtMostOne(n) == IF n < 1 THEN n ELSE 1

Responses(n) ==
    { Response("api_error", NoPlan, FALSE), Response("garbage", NoPlan, FALSE),
      Response("garbage", NoPlan, TRUE) }
    \cup {Response("json", o, FALSE) : o \in ValidPlans(n) \cup InvalidPlans(n)}
    \cup {Response("wrapped", o, FALSE) : o \in ValidPlans(AtMostOne(n)) \cup InvalidPlans(n)}
    \cup {Response("listed", o, FALSE) : o \in ValidPlans(AtMostOne(n))}

ValidAgents == {"Retriever", "Executor"}

ValidStepAnyAgent(step) == step.present = StepFields

ValidStep(step) ==
    step.is_object /\ step.present = StepFields /\ step.agent \in ValidAgents

ValidatePlanSkipsSteps(plan) ==
    /\ PlanFields \subseteq plan.fields
    /\ plan.steps_is_list
    /\ Len(plan.steps) > 0

\* PlannerAgent._validate_plan returns True
ValidatePlan(plan) ==
    /\ PlanFields \subseteq plan.fields
    /\ plan.steps_is_list
    /\ Len(plan.steps) > 0
    /\ \A n \in DOMAIN plan.steps : ValidStep(plan.steps[n])

\* PlannerAgent._validate_plan raises: the loop over the steps comes to an
\* element that is no object (`field in step` or step["agent"] is a TypeError)
\* before it has returned False.
ValidationRaises(plan) ==
    /\ PlanFields \subseteq plan.fields
    /\ plan.steps_is_list
    /\ \E n \in DOMAIN plan.steps :
          /\ ~plan.steps[n].is_object
          /\ \A m \in 1..(n - 1) : ValidStep(plan.steps[m])

\* The result of PlannerAgent.plan; raw_response is a text or None (NoResponse).
PlanResult(success, error, plan, raw_response) ==
    [success |-> success, error |-> error, plan |-> plan, raw_response |-> raw_response]

Parsed(ok, obj) == [ok |-> ok, obj |-> obj]

\* content = response.choices[0].message.content.strip()
Strip(resp) == [resp EXCEPT !.padded = FALSE]

\* json.loads(content): a JSON list has none of the fields of a plan.
FullParse(resp) ==
    IF resp.kind = "json" THEN Parsed(TRUE, resp.obj)
    ELSE IF resp.kind = "listed" THEN Parsed(TRUE, NoPlan)
    ELSE Parsed(FALSE, NoPlan)

\* json.loads of what re.search(r'\{.*\}', content, re.DOTALL) matches: the
\* text from the first opening brace to the last closing brace.
SubParse(resp) ==
    IF resp.kind \in {"json", "wrapped", "listed"} THEN Parsed(TRUE, resp.obj)
    ELSE Parsed(FALSE, NoPlan)

\* The handler at the end of plan: any exception, the model call's or one
\* raised while the answer is handled.
ApiError == PlanResult(FALSE, "OpenAI API error", NoPlan, NoResponse)

CouldNotParse(content) ==
    PlanResult(FALSE, "Could not parse response as JSON", NoPlan, content)

PlannerPlanAlwaysFallsBack(resp) ==
    IF resp.kind = "api_error" THEN ApiError
    ELSE LET content == Strip(resp)
             full == FullParse(content)
             sub == SubParse(content)
         IN IF full.ok /\ ValidationRaises(full.obj) THEN ApiError
            ELSE IF full.ok /\ ValidatePlan(full.obj)
            THEN PlanResult(TRUE, "", full.obj, content)
            ELSE IF ~sub.ok THEN CouldNotParse(content)
            ELSE IF ValidationRaises(sub.obj) THEN ApiError
            ELSE IF ValidatePlan(sub.obj) THEN PlanResult(TRUE, "", sub.obj, content)
            ELSE CouldNotParse(content)

\* PlannerAgent.plan
PlannerPlan(resp) ==
    IF resp.kind = "api_error" THEN ApiError
    ELSE LET content == Strip(resp)
             full == FullParse(content)
             sub == SubParse(content)
         IN IF full.ok
            THEN IF ValidationRaises(full.obj) THEN ApiError
                 ELSE IF ValidatePlan(full.obj) THEN PlanResult(TRUE, "", full.obj, content)
                 ELSE PlanResult(FALSE, "Generated plan has invalid structure", NoPlan,
                                 content)
            ELSE IF ~sub.ok THEN CouldNotParse(content)
            ELSE IF ValidationRaises(sub.obj) THEN ApiError
            ELSE IF ValidatePlan(sub.obj) THEN PlanResult(TRUE, "", sub.obj, content)
            ELSE CouldNotParse(content)

\* PlannerAgent.refine_plan
RefinePlan(resp) ==
    IF resp.kind = "api_error"
    THEN PlanResult(FALSE, "OpenAI API error during refinement", NoPlan, NoResponse)
    ELSE LET content == Strip(resp)
             full == FullParse(content)
             sub == SubParse(content)
             failed == PlanResult(FALSE, "Could not parse refined response as JSON", NoPlan,
                                  content)
             raised == PlanResult(FALSE, "OpenAI API error during refinement", NoPlan,
                                  NoResponse)
         IN IF full.ok
            THEN IF ValidationRaises(full.obj) THEN raised
                 ELSE IF ValidatePlan(full.obj) THEN PlanResult(TRUE, "", full.obj, content)
                 ELSE PlanResult(FALSE, "Refined plan has invalid structure", NoPlan, content)
            ELSE IF ~sub.ok THEN failed
            ELSE IF ValidationRaises(sub.obj) THEN raised
            ELSE IF ValidatePlan(sub.obj) THEN PlanResult(TRUE, "", sub.obj, content)
            ELSE failed

PlannerOpsAsksAgain(resp) ==
    <<"create">>
    \o (IF resp.kind = "api_error" THEN <<>>
        ELSE <<"loads">>
             \o (IF FullParse(Strip(resp)).ok THEN <<"validate">>
                 ELSE <<"create", "search">>
                      \o (IF SubParse(Strip(resp)).ok THEN <<"loads", "validate">>
                          ELSE <<>>)))

\* plan and refine_plan: what a call does, in order, when the model answers
\* resp: the model call (chat.completions.create), json.loads, re.search,
\* _validate_plan.  refine_plan goes the way plan goes.
PlannerOps(resp) ==
    <<"create">>
    \o (IF resp.kind = "api_error" THEN <<>>
        ELSE <<"loads">>
             \o (IF FullParse(Strip(resp)).ok THEN <<"validate">>
                 ELSE <<"search">>
                      \o (IF SubParse(Strip(resp)).ok THEN <<"loads", "validate">>
                          ELSE <<>>)))

\* --------------------------------------------------------------- retriever
\* The result of a step: `results` are the ranked chunks of a search (empty
\* when the result carries none), `payload` holds what an Executor
\* capability returned (empty when it returned nothing).
Result(success, error, results, payload) ==
    [success |-> success, error |-> error, results |-> results,
     total_results |-> Len(results), payload |-> payload]

\* The string "unknown", which is no chunk_id split_documents hands out.
Unknown == 0 - 1

Formatted(hits) ==
    [r \in DOMAIN hits |->
        [rank |-> r, content |-> hits[r].content,
         source_file |-> hits[r].source_file,
         chunk_id |-> Get(hits[r], "chunk_id", Unknown),
         similarity_score |-> hits[r].similarity_score]]

SearchFaultKeepsHits(o) ==
    Result(~o.fault, IF o.fault THEN "Search failed" ELSE "", Formatted(o.hits), <<>>)

\* RetrieverAgent.search
Search(o) ==
    IF o.fault THEN Result(FALSE, "Search failed", <<>>, <<>>)
    ELSE Result(TRUE, "", Formatted(o.hits), <<>>)

DefaultK == 4

Truncate(s, k) == SubSeq(s, 1, IF Len(s) < k THEN Len(s) ELSE k)

\* RetrieverAgent.search_by_document
SearchByDocument(source_file, k, o) ==
    IF o.fault THEN Result(FALSE, "Document search failed", <<>>, <<>>)
    ELSE LET InDoc(h) == h.source_file = source_file
         IN Result(TRUE, "", Formatted(Truncate(SelectSeq(o.hits, InDoc), k)), <<>>)

\* RetrieverAgent.get_document_list
GetDocumentList == Result(TRUE, "", <<>>, <<>>)

\* WorkspaceGPT._execute_retriever_step
ExecuteRetrieverStep(action, parameters, o) ==
    IF action = "search" THEN Search(o)
    ELSE IF action = "search_by_document"
         THEN SearchByDocument(Get(parameters, "source_file", ""), Get(parameters, "k", DefaultK), o)
    ELSE IF action = "get_documents" THEN GetDocumentList
    ELSE Result(FALSE, "Unknown retriever action", <<>>, <<>>)

\* The {source, content} items the driver buffers from a result.
Items(results) ==
    [r \in DOMAIN results |->
        [source |-> results[r].source_file, content |-> results[r].content]]

ExtendedReplaces(rc, result) ==
    IF result.success /\ result.results # <<>> THEN Items(result.results) ELSE rc

\* process_query: retrieved_content.extend(...) after a Retriever step
Extended(rc, result) ==
    IF result.success /\ result.results # <<>> THEN rc \o Items(result.results) ELSE rc

\* The queries of direct calls on the Retriever.
Queries == {"a", "b"}

\* The similarity, in hundredths, of the chunk at position p of the index to a
\* query: what the embedding backend computes.
Score(query, p) ==
    IF query = "a"
    THEN (IF p = 1 THEN 90 ELSE IF p = 2 THEN 50 ELSE IF p = 3 THEN 20 ELSE 40)
    ELSE (IF p = 1 THEN 60 ELSE IF p = 2 THEN 80 ELSE IF p = 3 THEN 70 ELSE 10)

\* score_threshold = 0.3
Threshold == 30

\* similarity_search_with_score(query, k): the k nearest of the positions S
RECURSIVE Nearest(_, _, _)
Nearest(query, S, k) ==
    IF k = 0 \/ S = {} THEN <<>>
    ELSE LET p == CHOOSE x \in S : \A y \in S : Score(query, x) >= Score(query, y)
         IN <<p>> \o Nearest(query, S \ {p}, k - 1)

\* ChromaVectorStore.similarity_search
SimilaritySearch(ix, query, k) ==
    LET near == Nearest(query, DOMAIN ix, k)
        AboveThreshold(p) == Score(query, p) >= Threshold
        kept == SelectSeq(near, AboveThreshold)
    IN [r \in DOMAIN kept |-> Hit(ix[kept[r]], Score(query, kept[r]))]

\* What the store answers to a direct call: it faults, or searches the index.
StoreAnswer(fault, hits) == [fault |-> fault, hits |-> hits, llm_fault |-> FALSE]

\* search_multiple_queries: the results of the searches that succeeded
AllResults(ix, queries, k, faults) ==
    Flatten([n \in DOMAIN queries |->
        LET result == Search(StoreAnswer(faults[n], SimilaritySearch(ix, queries[n], k)))
        IN IF result.success THEN result.results ELSE <<>>])

\* search_multiple_queries: a result is kept when its chunk_id was not seen
RECURSIVE Unique(_, _)
Unique(results, seen) ==
    IF results = <<>> THEN <<>>
    ELSE IF Head(results).chunk_id \in seen THEN Unique(Tail(results), seen)
    ELSE <<Head(results)>> \o Unique(Tail(results), seen \cup {Head(results).chunk_id})

\* list.sort(key = similarity_score, reverse = True): stable
RECURSIVE SortedByScore(_)
SortedByScore(results) ==
    IF results = <<>> THEN <<>>
    ELSE LET last == results[Len(results)]
             front == SortedByScore(SubSeq(results, 1, Len(results) - 1))
             AtLeast(x) == x.similarity_score >= last.similarity_score
             Below(x) == x.similarity_score < last.similarity_score
         IN SelectSeq(front, AtLeast) \o <<last>> \o SelectSeq(front, Below)

Reranked(results) == [n \in DOMAIN results |-> [results[n] EXCEPT !.rank = n]]

\* RetrieverAgent.search_multiple_queries
SearchMultipleQueries(ix, queries, k, faults) ==
    LET unique == Reranked(SortedByScore(Unique(AllResults(ix, queries, k, faults), {})))
    IN Result(TRUE, "", unique, <<>>)

\* ---------------------------------------------------------------- executor
AvailableActions ==
    {"create_task", "summarize", "generate_report", "create_checklist", "analyze_content"}

ContentActions == {"summarize", "analyze_content", "create_checklist"}

\* The parameters each capability's signature requires.
Required(action) ==
    CASE action = "create_task"      -> {"title"}
      [] action = "summarize"        -> {"content"}
      [] action = "generate_report"  -> {"title", "sections"}
      [] action = "create_checklist" -> {"title"}
      [] action = "analyze_content"  -> {"content"}
      [] OTHER                       -> {}

Payload(kind, title, ordinal, error) ==
    [kind |-> kind, title |-> title, ordinal |-> ordinal, error |-> error]

\* A stored task or report: the keys of the dictionary the capability builds.
Artifact(ordinal, title) == [ordinal |-> ordinal, title |-> title]

NewTaskCountsFromZero(tasks, parameters) == Artifact(Len(tasks), parameters["title"])

\* ExecutorAgent.create_task: the task it appends
NewTask(tasks, parameters) == Artifact(Len(tasks) + 1, parameters["title"])

\* ExecutorAgent.generate_report: the report it appends
NewReport(reports, parameters) == Artifact(Len(reports) + 1, parameters["title"])

\* An element of `sections` that is no object: the string s.
Bare(s) == [string |-> s]

\* generate_report: section.get(...) works on every element of sections
WellFormed(sections) == \A n \in DOMAIN sections : ~Has(sections[n], "string")

Executed(result, tasks, reports, ran) ==
    [result |-> result, tasks |-> tasks, reports |-> reports, ran |-> ran]

\* ExecutorAgent.execute: `ran` says whether the capability's body ran.
ExecutorExecute(action, parameters, tasks, reports, o) ==
    IF action \notin AvailableActions
    THEN Executed(Result(FALSE, "Unknown action", <<>>, <<>>), tasks, reports, FALSE)
    ELSE IF ~(Required(action) \subseteq DOMAIN parameters)
    THEN Executed(Result(FALSE, "Execution failed", <<>>, <<>>), tasks, reports, FALSE)
    ELSE IF action = "create_task"
    THEN LET t == NewTask(tasks, parameters)
         IN Executed(Result(TRUE, "", <<>>, <<Payload("task", t.title, t.ordinal, FALSE)>>),
                     Append(tasks, t), reports, TRUE)
    ELSE IF action = "generate_report" /\ ~WellFormed(parameters["sections"])
    THEN Executed(Result(FALSE, "Execution failed", <<>>, <<>>), tasks, reports, TRUE)
    ELSE IF action = "generate_report"
    THEN LET r == NewReport(reports, parameters)
         IN Executed(Result(TRUE, "", <<>>, <<Payload("report", r.title, r.ordinal, FALSE)>>),
                     tasks, Append(reports, r), TRUE)
    ELSE IF action = "create_checklist"
    THEN Executed(Result(TRUE, "", <<>>,
                         <<Payload("checklist", parameters["title"], 0, o.llm_fault)>>),
                  tasks, reports, TRUE)
    ELSE Executed(Result(TRUE, "", <<>>, <<Payload(action, "", 0, o.llm_fault)>>),
                  tasks, reports, TRUE)

\* A text is the sequence of its characters.
White == {" ", "\n"}

\* str.strip()
RECURSIVE TrimLeft(_)
TrimLeft(chars) ==
    IF chars # <<>> /\ Head(chars) \in White THEN TrimLeft(Tail(chars)) ELSE chars

RECURSIVE TrimRight(_)
TrimRight(chars) ==
    IF chars # <<>> /\ chars[Len(chars)] \in White
    THEN TrimRight(SubSeq(chars, 1, Len(chars) - 1)) ELSE chars

Trimmed(chars) == TrimRight(TrimLeft(chars))

\* The position of the first c in chars, 0 when there is none.
Find(chars, c) ==
    IF \E n \in DOMAIN chars : chars[n] = c
    THEN CHOOSE n \in DOMAIN chars : chars[n] = c /\ \A m \in 1..(n - 1) : chars[m] # c
    ELSE 0

\* text.split('\n')
RECURSIVE SplitLines(_)
SplitLines(chars) ==
    LET n == Find(chars, "\n")
    IN IF n = 0 THEN <<chars>>
       ELSE <<SubSeq(chars, 1, n - 1)>> \o SplitLines(SubSeq(chars, n + 1, Len(chars)))

\* The bullet character U+2022
Bullet == "*"

\* line.startswith(('1.', ..., '9.', '-', bullet))
Numerals == {"1", "2", "3", "4", "5", "6", "7", "8", "9"}

StartsWithMarker(line) ==
    \/ Len(line) >= 2 /\ line[1] \in Numerals /\ line[2] = "."
    \/ Len(line) >= 1 /\ line[1] \in {"-", Bullet}

\* line.split('.', 1)[-1].strip() if '.' in line else line[1:].strip()
ItemText(line) ==
    IF Find(line, ".") # 0
    THEN Trimmed(SubSeq(line, Find(line, ".") + 1, Len(line)))
    ELSE Trimmed(Tail(line))

ChecklistItem(text) == [item |-> text, completed |-> FALSE]

\* create_checklist: the loop over the lines of the model's answer
RECURSIVE ParsedItems(_)
ParsedItems(lines) ==
    IF lines = <<>> THEN <<>>
    ELSE LET line == Trimmed(Head(lines))
         IN (IF StartsWithMarker(line) THEN <<ChecklistItem(ItemText(line))>> ELSE <<>>)
            \o ParsedItems(Tail(lines))

\* What the model answers to a capability: the call faults, or returns text.
Reply(fault, text) == [fault |-> fault, text |-> text]

\* ExecutorAgent.create_checklist
CreateChecklist(title, reply) ==
    IF reply.fault
    THEN [checklist |-> [title |-> title, items |-> <<>>, total_items |-> 0],
          error |-> TRUE]
    ELSE LET items == ParsedItems(SplitLines(Trimmed(reply.text)))
         IN [checklist |-> [title |-> title, items |-> items, total_items |-> Len(items)],
             error |-> FALSE]

RECURSIVE CombinedNewestFirst(_)
CombinedNewestFirst(items) ==
    IF items = <<>> THEN <<>>
    ELSE <<"From ", items[Len(items)].source, ": ", items[Len(items)].content>>
         \o (IF Len(items) = 1 THEN <<>>
             ELSE <<"\n\n">> \o CombinedNewestFirst(SubSeq(items, 1, Len(items) - 1)))

\* "From <source>: <content>" for every item, joined by blank lines
RECURSIVE Combined(_)
Combined(items) ==
    IF items = <<>> THEN <<>>
    ELSE <<"From ", Head(items).source, ": ", Head(items).content>>
         \o (IF Tail(items) = <<>> THEN <<>> ELSE <<"\n\n">> \o Combined(Tail(items)))

\* The value the driver stores under "retrieved_content": the buffer itself,
\* not a copy of it.
BufferRef == "retrieved_content of this run"

\* WorkspaceGPT._execute_executor_step: the parameters it hands to execute
CombineContent(action, parameters, retrieved_content) ==
    IF Has(parameters, "retrieved_content") /\ action \in ContentActions
    THEN Del(Put(parameters, "content", Combined(retrieved_content)), "retrieved_content")
    ELSE parameters

MapTaskTypeKeepsKey(action, parameters) ==
    IF action = "create_task"
    THEN LET q == IF Has(parameters, "task_type") /\ ~Has(parameters, "title")
                  THEN Put(parameters, "title", parameters["task_type"])
                  ELSE parameters
         IN IF Has(q, "title") THEN q ELSE Put(q, "title", "Generated Task")
    ELSE parameters

MapTaskType(action, parameters) ==
    IF action = "create_task"
    THEN LET q == IF Has(parameters, "task_type") /\ ~Has(parameters, "title")
                  THEN Del(Put(parameters, "title", parameters["task_type"]), "task_type")
                  ELSE parameters
         IN IF Has(q, "title") THEN q ELSE Put(q, "title", "Generated Task")
    ELSE parameters

DefaultChecklistTitle(action, parameters) ==
    IF action = "create_checklist" /\ ~Has(parameters, "title")
    THEN Put(parameters, "title", "Generated Checklist")
    ELSE parameters

Rewritten(action, parameters, retrieved_content) ==
    DefaultChecklistTitle(action,
        MapTaskType(action, CombineContent(action, parameters, retrieved_content)))

\* A call the driver made on an agent, with the parameters it handed over.
Call(n, agent, action, parameters, ran) ==
    [step |-> n, agent |-> agent, action |-> action, parameters |-> parameters,
     ran |-> ran]

Dispatched(parameters, result, rc, ts, rs, made) ==
    [raised |-> FALSE, error |-> "", parameters |-> parameters, result |-> result,
     retrieved_content |-> rc, tasks |-> ts, reports |-> rs, calls |-> made]

Raised(error, rc, ts, rs) ==
    [raised |-> TRUE, error |-> error, parameters |-> EmptyMap,
     result |-> Result(FALSE, error, <<>>, <<>>),
     retrieved_content |-> rc, tasks |-> ts, reports |-> rs, calls |-> <<>>]

\* WorkspaceGPT.process_query, the body of the n-th turn of the loop up to the
\* logging of the step.  Parameters that are no object make the first use of
\* them raise.
Dispatch(n, step, rc, ts, rs, o) ==
    IF step.agent = "Retriever"
    THEN IF step.pkind = "null"
         THEN Raised("'NoneType' object has no attribute 'get'", rc, ts, rs)
         ELSE LET result == ExecuteRetrieverStep(step.action, step.parameters, o)
                  made == IF step.action \in {"search", "search_by_document", "get_documents"}
                          THEN <<Call(n, "Retriever", step.action, step.parameters, TRUE)>>
                          ELSE <<>>
              IN Dispatched(step.parameters, result, Extended(rc, result), ts, rs, made)
    ELSE IF step.agent = "Executor"
    THEN IF step.pkind = "null"
         THEN Raised("argument of type 'NoneType' is not iterable", rc, ts, rs)
         ELSE LET given == IF rc # <<>>
                           THEN Put(step.parameters, "retrieved_content", BufferRef)
                           ELSE step.parameters
                  handed == Rewritten(step.action, given, rc)
                  ex == ExecutorExecute(step.action, handed, ts, rs, o)
              IN Dispatched(handed, ex.result, rc, ex.tasks, ex.reports,
                            <<Call(n, "Executor", step.action, handed, ex.ran)>>)
    ELSE Dispatched(step.parameters, Result(FALSE, "Unknown agent", <<>>, <<>>),
                    rc, ts, rs, <<>>)

\* ------------------------------------------------------------- context log
\* ContextEntry.  Its input_data and output_data are the dictionaries the
\* caller passed, not copies of them: the entry keeps which step's they are
\* (`step`, 0 for the planner) and of the result `success`; EntryData gives
\* what they hold.
Entry(agent, action, step, success) ==
    [agent |-> agent, action |-> action, step |-> step, success |-> success]

\* ConversationContext(session_id, user_query)
NewContext(sid) ==
    [session_id |-> sid, entries |-> <<>>, current_step |-> 0, status |-> "active"]

AddEntryKeepsStep(c, e) ==
    [c EXCEPT !.entries = Append(@, e)]

\* ConversationContext.add_entry
AddEntry(c, e) ==
    [c EXCEPT !.entries = Append(@, e), !.current_step = @ + 1]

\* ContextManager.log_agent_action: the entry goes to the active context
LogAgentAction(cs, active, e) == [cs EXCEPT ![active] = AddEntry(@, e)]

SetStatus(cs, c, status) == [cs EXCEPT ![c].status = status]

\* ------------------------------------------------------------------ driver
VARIABLES
    pc,                \* where process_query stands: idle, planning, executing,
                       \* summarizing, done
    heap,              \* the ConversationContext objects, in creation order
    contexts,          \* ContextManager.contexts: session id -> object in heap
    active_context,    \* ContextManager.active_context (0: None)
    tasks, reports,    \* ExecutorAgent.tasks, ExecutorAgent.reports
    session_id,        \* locals of the running process_query ...
    context,
    response,          \* what the language model answered to the planner
    plan_result,
    plan,
    i,                 \* index in plan["steps"] of the step the loop is at
    step_results,
    retrieved_content,
    calls,             \* the calls this run made on the Retriever and the Executor
    ret                \* what process_query returned (returned = FALSE: not yet)

VARIABLES
    index,             \* the chunks of the vector store a RetrieverAgent is called
                       \* on directly, by position
    answer,            \* the last direct call on the RetrieverAgent and its result
    thread,            \* threads creating on one ExecutorAgent: where each stands
    finished,          \* the create_task / generate_report calls that returned
    direct,            \* the last direct call on the Planner, the Executor or the
                       \* ContextManager, and what it did
    parked             \* the locals of the process_query call of the thread that
                       \* waits while the other thread of the orchestrator runs,
                       \* and which thread it is (0: there is one thread only)

\* What a run of process_query leaves alone.
others == <<index, answer, thread, finished, direct, parked>>

vars == <<pc, heap, contexts, active_context, tasks, reports, session_id, context,
          response, plan_result, plan, i, step_results, retrieved_content, calls, ret,
          others>>

\* No direct call on the Retriever was made.
NoAnswer ==
    [index |-> <<>>, op |-> "none", queries |-> <<>>, source_file |-> "", k |-> 0,
     faults |-> <<>>, result |-> Result(FALSE, "", <<>>, <<>>)]

\* A direct call: the method, its argument, what it returned or raised.
Called(op, arg, out) == [op |-> op, arg |-> arg, out |-> out]

NoDirect == Called("none", <<>>, <<>>)

Threads == {1, 2}

\* Where a thread stands: outside create_task and generate_report, or inside
\* one of them with the dictionary it built (`made`), before the append.
Inside(at, made) == [at |-> at, made |-> made]

Outside == Inside("outside", Artifact(0, ""))

\* No thread is inside create_task or generate_report.
NoThreads ==
    /\ thread = [t \in Threads |-> Outside]
    /\ finished = [tasks |-> 0, reports |-> 0]

NoReturn ==
    [returned |-> FALSE, success |-> FALSE, session_id |-> 0, error |-> "",
     final_summary |-> <<>>]

Return(sid, success, error, summary) ==
    [returned |-> TRUE, success |-> success, session_id |-> sid, error |-> error,
     final_summary |-> summary]

NoPlanResult == PlanResult(FALSE, "", NoPlan, NoResponse)

TotalEntries == Len(Flatten([n \in DOMAIN heap |-> heap[n].entries]))

Min(a, b) == IF a < b THEN a ELSE b

\* The locals of a process_query call.
Locals(at, sid, ctx, resp, pr, pl, n, results, rc, made, returned) ==
    [pc |-> at, session_id |-> sid, context |-> ctx, response |-> resp,
     plan_result |-> pr, plan |-> pl, i |-> n, step_results |-> results,
     retrieved_content |-> rc, calls |-> made, ret |-> returned]

\* A thread that is not in process_query.
NotCalling ==
    Locals("idle", 0, 0, NoResponse, NoPlanResult, NoPlan, 0, <<>>, <<>>, <<>>, NoReturn)

\* The thread t waits with the locals l.
Parked(l, t) == Put(l, "thread", t)

\* The context entries a call is still going to log when every step of its
\* plan gets its turn.
Outstanding(l) ==
    IF l.pc = "planning" THEN 1
    ELSE IF l.pc = "executing" THEN Len(l.plan.steps) - (l.i - 1)
    ELSE 0

\* WorkspaceGPT.__init__, but for the vector store
Constructed ==
    /\ pc = "idle"
    /\ heap = <<>>
    /\ contexts = EmptyMap
    /\ active_context = 0
    /\ tasks = <<>>
    /\ reports = <<>>
    /\ session_id = 0
    /\ context = 0
    /\ response = NoResponse
    /\ plan_result = NoPlanResult
    /\ plan = NoPlan
    /\ i = 0
    /\ step_results = <<>>
    /\ retrieved_content = <<>>
    /\ calls = <<>>
    /\ ret = NoReturn

Init ==
    /\ Constructed
    /\ index = <<>>
    /\ answer = NoAnswer
    /\ NoThreads
    /\ parked = Parked(NotCalling, 0)
    /\ direct = NoDirect

\* An identifier no earlier call drew.
NewSessionId == Len(heap) + 1

\* uuid4().hex[:8], eight hexadecimal digits drawn at random: one of the
\* identifiers drawn before, or one never drawn.
Drawn == (DOMAIN contexts) \cup {NewSessionId}

\* process_query, up to the call of the planner: ContextManager.create_context
StartQuery ==
    /\ pc \in {"idle", "done"}
    /\ TotalEntries + Outstanding(parked) < MaxEntries
    /\ \E sid \in Drawn :
          LET obj == Len(heap) + 1
          IN /\ heap' = Append(heap, NewContext(sid))
             /\ contexts' = Put(contexts, sid, obj)
             /\ active_context' = obj
             /\ context' = obj
             /\ session_id' = sid
    /\ pc' = "planning"
    /\ response' = NoResponse
    /\ plan_result' = NoPlanResult
    /\ plan' = NoPlan
    /\ i' = 0
    /\ step_results' = <<>>
    /\ retrieved_content' = <<>>
    /\ calls' = <<>>
    /\ ret' = NoReturn
    /\ UNCHANGED <<others, tasks, reports>>

\* The plans the bound on the log leaves room for.
Room == Min(MaxSteps, MaxEntries - TotalEntries - Outstanding(parked) - 1)

\* The orchestrator is called by two threads.
TwoThreads == parked.thread # 0

\* The answers the model gives the planner when two threads call: an error,
\* or a plan of searches, task creations and steps without parameters.
FewResponses(n) ==
    {Response("api_error", NoPlan, FALSE)}
    \cup {Response("json", MkPlan(PlanFields, TRUE, Numbered(ss)), FALSE) :
             ss \in StepSeqs({MkStep("Retriever", "search", "map", QueryParams),
                              MkStep("Retriever", "get_documents", "null", EmptyMap),
                              MkStep("Executor", "create_task", "map", [title |-> "Call"])},
                             n)}

\* What the model can answer the planner of this call.
Answers == IF TwoThreads THEN FewResponses(Room) ELSE Responses(Room)

PlannerEntry(pr) == Entry("Planner", "create_plan", 0, pr.success)

\* process_query, planning phase, the planner succeeded
PlanOk ==
    /\ pc = "planning"
    /\ \E resp \in Answers :
          LET pr == PlannerPlan(resp)
          IN /\ pr.success
             /\ response' = resp
             /\ plan_result' = pr
             /\ plan' = pr.plan
             /\ heap' = LogAgentAction(heap, active_context, PlannerEntry(pr))
    /\ pc' = "executing"
    /\ i' = 1
    /\ UNCHANGED <<others, contexts, active_context, tasks, reports, session_id,
                   context, step_results, retrieved_content, calls, ret>>

PlanFailedStaysActive ==
    /\ pc = "planning"
    /\ \E resp \in Answers :
          LET pr == PlannerPlan(resp)
          IN /\ ~pr.success
             /\ response' = resp
             /\ plan_result' = pr
             /\ heap' = LogAgentAction(heap, active_context, PlannerEntry(pr))
    /\ ret' = Return(session_id, FALSE, "Planning failed", <<>>)
    /\ pc' = "done"
    /\ UNCHANGED <<others, contexts, active_context, tasks, reports, session_id,
                   context, plan, i, step_results, retrieved_content, calls>>

\* process_query, planning phase, the planner failed
PlanFailed ==
    /\ pc = "planning"
    /\ \E resp \in Answers :
          LET pr == PlannerPlan(resp)
          IN /\ ~pr.success
             /\ response' = resp
             /\ plan_result' = pr
             /\ heap' = SetStatus(LogAgentAction(heap, active_context, PlannerEntry(pr)),
                                  context, "error")
    /\ ret' = Return(session_id, FALSE, "Planning failed", <<>>)
    /\ pc' = "done"
    /\ UNCHANGED <<others, contexts, active_context, tasks, reports, session_id,
                   context, plan, i, step_results, retrieved_content, calls>>

StepResultDropsNumber(step, result) ==
    [step_number |-> 0, agent |-> step.agent, action |-> step.action,
     description |-> step.description, result |-> result, success |-> result.success]

\* process_query: the dictionary appended to step_results
StepResult(step, result) ==
    [step_number |-> step.step_number, agent |-> step.agent, action |-> step.action,
     description |-> step.description, result |-> result, success |-> result.success]

AfterStepSkipsLast(n, len) == IF n + 1 >= len THEN "summarizing" ELSE "executing"

\* The for loop over plan["steps"]: where the run stands after the n-th of
\* len steps.
AfterStep(n, len) == IF n = len THEN "summarizing" ELSE "executing"

\* process_query, one turn of the loop over plan["steps"]
ExecuteStep ==
    /\ pc = "executing"
    /\ \E o \in Outcomes :
          LET step == plan.steps[i]
              out == Dispatch(i, step, retrieved_content, tasks, reports, o)
          IN /\ ~out.raised
             /\ plan' = IF step.pkind = "map"
                        THEN [plan EXCEPT !.steps[i].parameters = out.parameters]
                        ELSE plan
             /\ heap' = LogAgentAction(heap, active_context,
                                       Entry(step.agent, step.action, i, out.result.success))
             /\ step_results' = Append(step_results, StepResult(step, out.result))
             /\ retrieved_content' = out.retrieved_content
             /\ tasks' = out.tasks
             /\ reports' = out.reports
             /\ calls' = calls \o out.calls
    /\ pc' = AfterStep(i, Len(plan.steps))
    /\ i' = i + 1
    /\ UNCHANGED <<others, contexts, active_context, session_id, context, response,
                   plan_result, ret>>

StepFaultEscapes ==
    /\ pc = "executing"
    /\ \E o \in Outcomes :
          Dispatch(i, plan.steps[i], retrieved_content, tasks, reports, o).raised
    /\ pc' = "done"
    /\ UNCHANGED <<others, heap, contexts, active_context, tasks, reports, session_id,
                   context, response, plan_result, plan, i, step_results, retrieved_content,
                   calls, ret>>

\* process_query, a turn of the loop raises: the handler at the end of
\* process_query takes over
StepFault ==
    /\ pc = "executing"
    /\ \E o \in Outcomes :
          LET out == Dispatch(i, plan.steps[i], retrieved_content, tasks, reports, o)
          IN /\ out.raised
             /\ heap' = SetStatus(heap, context, "error")
             /\ ret' = Return(session_id, FALSE, out.error, <<>>)
    /\ pc' = "done"
    /\ UNCHANGED <<others, contexts, active_context, tasks, reports, session_id,
                   context, response, plan_result, plan, i, step_results, retrieved_content,
                   calls>>

\* [s for s in step_results if s["success"]], as positions
Successful(results) == {n \in DOMAIN results : results[n].success}

\* [s for s in step_results if not s["success"]], as positions
Failing(results) == {n \in DOMAIN results : ~results[n].success}

Sources(items) == {items[n].source : n \in DOMAIN items}

\* str(n) of a small count
ToStr(n) == <<"0", "1", "2", "3", "4", "5", "6", "7", "8", "9">>[n + 1]

\* result.get("result", {}).get(kind, {}).get("title", "Unknown")
TitleOf(result, kind) ==
    IF result.payload # <<>> /\ result.payload[1].kind = kind
    THEN result.payload[1].title ELSE "Unknown"

\* The checklist's total_items, as text: 0 when the capability's model call
\* faulted, else the number of items it read from the model's answer.
ItemCount(result) ==
    IF result.payload # <<>> /\ result.payload[1].error THEN ToStr(0) ELSE "<total_items>"

AchievementOfAnyStep(sr) ==
    IF sr.agent = "Retriever"
    THEN <<<<"Retrieved ", ToStr(sr.result.total_results), " relevant documents for '",
             sr.description, "'">>>>
    ELSE IF sr.agent # "Executor" THEN <<>>
    ELSE IF sr.action = "create_task"
    THEN <<<<"Created task: ", TitleOf(sr.result, "task")>>>>
    ELSE IF sr.action = "summarize" THEN <<<<"Generated content summary">>>>
    ELSE IF sr.action = "generate_report"
    THEN <<<<"Generated report: ", TitleOf(sr.result, "report")>>>>
    ELSE IF sr.action = "create_checklist"
    THEN <<<<"Created checklist with ", ItemCount(sr.result), " items">>>>
    ELSE <<>>

\* _generate_final_summary, one turn of the loop over step_results: the
\* strings it appends to key_achievements
Achievement(sr) ==
    IF ~sr.success THEN <<>>
    ELSE IF sr.agent = "Retriever"
    THEN <<<<"Retrieved ", ToStr(sr.result.total_results), " relevant documents for '",
             sr.description, "'">>>>
    ELSE IF sr.agent # "Executor" THEN <<>>
    ELSE IF sr.action = "create_task"
    THEN <<<<"Created task: ", TitleOf(sr.result, "task")>>>>
    ELSE IF sr.action = "summarize" THEN <<<<"Generated content summary">>>>
    ELSE IF sr.action = "generate_report"
    THEN <<<<"Generated report: ", TitleOf(sr.result, "report")>>>>
    ELSE IF sr.action = "create_checklist"
    THEN <<<<"Created checklist with ", ItemCount(sr.result), " items">>>>
    ELSE <<>>

FinalSummaryCountsItems(results, rc) ==
    [total_steps |-> Len(results),
     successful_steps |-> Cardinality(Successful(results)),
     failed_steps |-> Cardinality(Failing(results)),
     retrieved_documents |-> Len(rc),
     key_achievements |-> Flatten([n \in DOMAIN results |-> Achievement(results[n])])]

\* WorkspaceGPT._generate_final_summary
FinalSummary(results, rc) ==
    [total_steps |-> Len(results),
     successful_steps |-> Cardinality(Successful(results)),
     failed_steps |-> Cardinality(Failing(results)),
     retrieved_documents |-> Cardinality(Sources(rc)),
     key_achievements |-> Flatten([n \in DOMAIN results |-> Achievement(results[n])])]

FinalStatusAlwaysCompleted(results) == "completed"

\* The status process_query leaves on a run that went through all its steps.
FinalStatus(results) ==
    IF Failing(results) = {} THEN "completed" ELSE "completed_with_errors"

\* process_query, from the end of the loop to the return
Summarize ==
    /\ pc = "summarizing"
    /\ heap' = SetStatus(heap, context, FinalStatus(step_results))
    /\ ret' = Return(session_id, TRUE, "", FinalSummary(step_results, retrieved_content))
    /\ pc' = "done"
    /\ UNCHANGED <<others, contexts, active_context, tasks, reports, session_id,
                   context, response, plan_result, plan, i, step_results, retrieved_content,
                   calls>>

\* What a reader finds in a dictionary the driver logged: under
\* "retrieved_content" the buffer as it is now.
Deref(parameters, rc) ==
    IF Has(parameters, "retrieved_content") THEN Put(parameters, "retrieved_content", rc)
    ELSE parameters

\* What a reader finds in an entry of the running call's context: the
\* planner's entry leads to the plan object (output_data["plan"]), a step's
\* entry to the step object of the plan and to the parameters dictionary,
\* which is the step's own when the step carries one.
EntryData(e) ==
    IF e.step = 0
    THEN [agent |-> e.agent, action |-> e.action,
          input_data |-> [user_query |-> "q"],
          output_data |-> [success |-> e.success,
                           steps |-> [n \in DOMAIN plan.steps |->
                                        Deref(plan.steps[n].parameters, retrieved_content)]]]
    ELSE [agent |-> e.agent, action |-> e.action,
          input_data |-> [parameters |->
                            Deref(plan.steps[e.step].parameters, retrieved_content)],
          output_data |-> [success |-> e.success]]

Next ==
    \/ StartQuery
    \/ PlanOk
    \/ PlanFailed
    \/ ExecuteStep
    \/ StepFault
    \/ Summarize

Spec == Init /\ [][Next]_vars

\* ------------------------------------------------- two threads in process_query
\* Two threads call process_query on one orchestrator.  The variables of the
\* driver are the locals of the thread that runs; the other thread's are
\* parked.  The threads take turns between two steps of a call: each step
\* holds one call of log_agent_action.
Running ==
    Locals(pc, session_id, context, response, plan_result, plan, i, step_results,
           retrieved_content, calls, ret)

\* The other thread gets the processor.
Switch ==
    /\ TwoThreads
    /\ parked' = Parked(Running, 3 - parked.thread)
    /\ pc' = parked.pc
    /\ session_id' = parked.session_id
    /\ context' = parked.context
    /\ response' = parked.response
    /\ plan_result' = parked.plan_result
    /\ plan' = parked.plan
    /\ i' = parked.i
    /\ step_results' = parked.step_results
    /\ retrieved_content' = parked.retrieved_content
    /\ calls' = parked.calls
    /\ ret' = parked.ret
    /\ UNCHANGED <<heap, contexts, active_context, tasks, reports, index, answer, thread,
                   finished, direct>>

NextRuns ==
    \/ Next
    \/ Switch

InitRuns ==
    /\ Constructed
    /\ index = <<>>
    /\ answer = NoAnswer
    /\ thread = [t \in Threads |-> Outside]
    /\ finished = [tasks |-> 0, reports |-> 0]
    /\ direct = NoDirect
    /\ parked = Parked(NotCalling, 2)

SpecRuns == InitRuns /\ [][NextRuns]_vars

\* --------------------------------------------- direct calls on the Retriever
\* A RetrieverAgent on a vector store of its own: create_vector_store built
\* the index from the documents folder, add_document extends it, and the
\* agent's search methods are called on it.

\* The variables of process_query and of the agents it drives.
process == <<pc, heap, contexts, active_context, session_id, context, response,
             plan_result, plan, i, step_results, retrieved_content, calls, ret, parked>>

\* ChromaVectorStore.create_vector_store: split_documents numbers the chunks.
BuiltIndexes == {[p \in 1..n |-> Chunk(p)] : n \in 0..(MaxChunks - 1)}

InitSearch ==
    /\ Constructed
    /\ index \in BuiltIndexes
    /\ answer = NoAnswer
    /\ NoThreads
    /\ parked = Parked(NotCalling, 0)
    /\ direct = NoDirect

Ks == 1..MaxK

QuerySeqs == UNION {[1..n -> Queries] : n \in 1..MaxQueries}

\* A direct call: the index it ran on, its arguments, for each search whether
\* the store faulted, and what the call returned.
Asked(ix, op, queries, source_file, k, faults, result) ==
    [index |-> ix, op |-> op, queries |-> queries, source_file |-> source_file, k |-> k,
     faults |-> faults, result |-> result]

\* ChromaVectorStore.add_document
AddDocument ==
    /\ Len(index) < MaxChunks
    /\ index' = Append(index, AddedChunk(Len(index) + 1))
    /\ UNCHANGED <<process, tasks, reports, answer, thread, finished, direct>>

\* RetrieverAgent.search
CallSearch ==
    /\ \E query \in Queries, k \in Ks, fault \in BOOLEAN :
          answer' = Asked(index, "search", <<query>>, "", k, <<fault>>,
                          Search(StoreAnswer(fault, SimilaritySearch(index, query, k))))
    /\ UNCHANGED <<process, tasks, reports, index, thread, finished, direct>>

\* RetrieverAgent.search_by_document
CallSearchByDocument ==
    /\ \E query \in Queries, d \in 1..MaxChunks, k \in Ks, fault \in BOOLEAN :
          answer' = Asked(index, "search_by_document", <<query>>, DocName(d), k, <<fault>>,
                          SearchByDocument(DocName(d), k,
                              StoreAnswer(fault, SimilaritySearch(index, query, k * 3))))
    /\ UNCHANGED <<process, tasks, reports, index, thread, finished, direct>>

\* RetrieverAgent.search_multiple_queries
CallSearchMultipleQueries ==
    /\ \E queries \in QuerySeqs, k \in Ks :
          \E faults \in [DOMAIN queries -> BOOLEAN] :
              answer' = Asked(index, "search_multiple_queries", queries, "", k, faults,
                              SearchMultipleQueries(index, queries, k, faults))
    /\ UNCHANGED <<process, tasks, reports, index, thread, finished, direct>>

NextSearch ==
    \/ AddDocument
    \/ CallSearch
    \/ CallSearchByDocument
    \/ CallSearchMultipleQueries

SpecSearch == InitSearch /\ [][NextSearch]_vars

\* ------------------------------------ interleaved creations on the Executor
\* Threads call create_task and generate_report on one ExecutorAgent.  Each
\* method reads the length of its collection when it builds the identifier
\* and appends at its end; another thread can run in between.
Titles == {"Call", "Report"}

\* The calls made so far: those that returned and those under way.
Creations ==
    finished.tasks + finished.reports
        + Cardinality({t \in Threads : thread[t].at # "outside"})

StoredAtOrdinal(collection, made) ==
    [n \in 1..(IF made.ordinal > Len(collection) THEN made.ordinal ELSE Len(collection)) |->
        IF n = made.ordinal THEN made ELSE collection[n]]

\* list.append
Appended(collection, made) == Append(collection, made)

\* ExecutorAgent.create_task, up to the task dictionary
EnterCreateTask(t) ==
    /\ thread[t].at = "outside"
    /\ Creations < MaxCreations
    /\ \E title \in Titles :
          thread' = [thread EXCEPT
                        ![t] = Inside("create_task", NewTask(tasks, [title |-> title]))]
    /\ UNCHANGED <<process, tasks, reports, index, answer, finished, direct>>

\* ExecutorAgent.create_task, from self.tasks.append(task) to the return
LeaveCreateTask(t) ==
    /\ thread[t].at = "create_task"
    /\ tasks' = Appended(tasks, thread[t].made)
    /\ thread' = [thread EXCEPT ![t] = Outside]
    /\ finished' = [finished EXCEPT !.tasks = @ + 1]
    /\ UNCHANGED <<process, reports, index, answer, direct>>

\* ExecutorAgent.generate_report, up to the report dictionary
EnterGenerateReport(t) ==
    /\ thread[t].at = "outside"
    /\ Creations < MaxCreations
    /\ \E title \in Titles :
          thread' = [thread EXCEPT
                        ![t] = Inside("generate_report",
                                      NewReport(reports, [title |-> title]))]
    /\ UNCHANGED <<process, tasks, reports, index, answer, finished, direct>>

\* ExecutorAgent.generate_report, from self.reports.append(report) to the
\* return
LeaveGenerateReport(t) ==
    /\ thread[t].at = "generate_report"
    /\ reports' = Appended(reports, thread[t].made)
    /\ thread' = [thread EXCEPT ![t] = Outside]
    /\ finished' = [finished EXCEPT !.reports = @ + 1]
    /\ UNCHANGED <<process, tasks, index, answer, direct>>

NextThreads ==
    \/ \E t \in Threads : EnterCreateTask(t)
    \/ \E t \in Threads : LeaveCreateTask(t)
    \/ \E t \in Threads : EnterGenerateReport(t)
    \/ \E t \in Threads : LeaveGenerateReport(t)

SpecThreads == Init /\ [][NextThreads]_vars

\* ------------------------------------------------ direct calls on the Planner
\* plan or refine_plan is called on a PlannerAgent, outside process_query; the
\* model is going to answer with the text the call was set up with.
Pending(arg) == Called("none", arg, <<>>)

InitPlanner ==
    /\ Constructed
    /\ index = <<>>
    /\ answer = NoAnswer
    /\ NoThreads
    /\ parked = Parked(NotCalling, 0)
    /\ direct \in {Pending(resp) : resp \in Responses(MaxSteps)}

Planning(resp, result) == [result |-> result, ops |-> PlannerOps(resp)]

\* PlannerAgent.plan
CallPlan ==
    /\ direct.op = "none"
    /\ direct' = Called("plan", direct.arg, Planning(direct.arg, PlannerPlan(direct.arg)))
    /\ UNCHANGED <<process, tasks, reports, index, answer, thread, finished>>

\* PlannerAgent.refine_plan
CallRefinePlan ==
    /\ direct.op = "none"
    /\ direct' = Called("refine_plan", direct.arg,
                        Planning(direct.arg, RefinePlan(direct.arg)))
    /\ UNCHANGED <<process, tasks, reports, index, answer, thread, finished>>

NextPlanner ==
    \/ CallPlan
    \/ CallRefinePlan

SpecPlanner == InitPlanner /\ [][NextPlanner]_vars

\* --------------------------------------------- create_checklist on a text
\* create_checklist is called on an ExecutorAgent whose model is going to
\* answer with a text of a few lines, or to fault.
LineChoices ==
    { <<"1", ".", " ", "a">>,
      <<"-", " ", "b">>,
      <<Bullet, " ", "a">>,
      <<"a">>,
      <<" ", "2", ".", " ", "b", " ">>,
      <<"-", " ", "a", ".", "b">>,
      <<>>,
      <<"1", "0", ".", " ", "a">>,
      <<"-">> }

\* '\n'.join(lines)
RECURSIVE Joined(_)
Joined(lines) ==
    IF lines = <<>> THEN <<>>
    ELSE IF Len(lines) = 1 THEN Head(lines)
    ELSE Head(lines) \o <<"\n">> \o Joined(Tail(lines))

Replies ==
    {Reply(TRUE, <<>>)}
    \cup {Reply(FALSE, Joined(lines)) :
             lines \in UNION {[1..n -> LineChoices] : n \in 1..MaxLines}}

InitChecklist ==
    /\ Constructed
    /\ index = <<>>
    /\ answer = NoAnswer
    /\ NoThreads
    /\ parked = Parked(NotCalling, 0)
    /\ direct \in {Pending(reply) : reply \in Replies}

\* ExecutorAgent.create_checklist
CallCreateChecklist ==
    /\ direct.op = "none"
    /\ \E title \in Titles :
          direct' = Called("create_checklist", direct.arg,
                           CreateChecklist(title, direct.arg))
    /\ UNCHANGED <<process, tasks, reports, index, answer, thread, finished>>

NextChecklist == CallCreateChecklist

SpecChecklist == InitChecklist /\ [][NextChecklist]_vars

\* ----------------------------------------- direct calls on the ContextManager
\* create_context, set_active_context and log_agent_action are called on a
\* ContextManager, which starts with no context and none active.
SessionIds == 1..MaxContexts

EntryChoices ==
    {Entry("Planner", "create_plan", 0, TRUE), Entry("Retriever", "search", 1, FALSE)}

\* ContextManager.create_context
CreateContext ==
    /\ Len(heap) < MaxContexts
    /\ \E sid \in SessionIds :
          /\ heap' = Append(heap, NewContext(sid))
          /\ contexts' = Put(contexts, sid, Len(heap) + 1)
          /\ active_context' = Len(heap) + 1
          /\ direct' = Called("create_context", sid, Len(heap) + 1)
    /\ UNCHANGED <<pc, session_id, context, response, plan_result, plan, i, step_results,
                   retrieved_content, calls, ret, parked, tasks, reports, index, answer,
                   thread, finished>>

\* ContextManager.set_active_context
SetActiveContext ==
    /\ \E sid \in SessionIds :
          /\ active_context' = IF Has(contexts, sid) THEN contexts[sid] ELSE active_context
          /\ direct' = Called("set_active_context", sid, Has(contexts, sid))
    /\ UNCHANGED <<pc, heap, contexts, session_id, context, response, plan_result, plan, i,
                   step_results, retrieved_content, calls, ret, parked, tasks, reports,
                   index, answer, thread, finished>>

\* ContextManager.log_agent_action
CallLogAgentAction ==
    /\ TotalEntries < MaxEntries
    /\ \E e \in EntryChoices :
          IF active_context = 0
          THEN /\ direct' = Called("log_agent_action", e, "ValueError")
               /\ heap' = heap
          ELSE /\ direct' = Called("log_agent_action", e, "entry")
               /\ heap' = LogAgentAction(heap, active_context, e)
    /\ UNCHANGED <<pc, contexts, active_context, session_id, context, response, plan_result,
                   plan, i, step_results, retrieved_content, calls, ret, parked, tasks,
                   reports, index, answer, thread, finished>>

NextContext ==
    \/ CreateContext
    \/ SetActiveContext
    \/ CallLogAgentAction

SpecContext == Init /\ [][NextContext]_vars

\* ---------------------------------------------- direct calls on the Executor
\* execute is called on an ExecutorAgent, one call after the other.
ExecuteCall(action, parameters) == [action |-> action, parameters |-> parameters]

ExecuteChoices ==
    { ExecuteCall("create_task", [title |-> "Call"]),
      ExecuteCall("create_task", [title |-> "Report", priority |-> "high"]),
      ExecuteCall("create_task", [task_type |-> "Follow up"]),
      ExecuteCall("create_task", EmptyMap),
      ExecuteCall("generate_report",
                  [title |-> "Report", sections |-> <<[title |-> "Intro", content |-> "text"]>>]),
      ExecuteCall("generate_report", [title |-> "Report"]),
      ExecuteCall("generate_report", [sections |-> <<>>]),
      ExecuteCall("generate_report",
                  [title |-> "Report",
                   sections |-> <<[title |-> "Intro", content |-> "text"], Bare("text")>>]),
      ExecuteCall("send_email", EmptyMap) }

\* ExecutorAgent.execute
CallExecute ==
    /\ \E c \in ExecuteChoices :
          LET ex == ExecutorExecute(c.action, c.parameters, tasks, reports,
                                    [fault |-> FALSE, hits |-> <<>>, llm_fault |-> FALSE])
          IN /\ Len(ex.tasks) + Len(ex.reports) <= MaxCreations
             /\ tasks' = ex.tasks
             /\ reports' = ex.reports
             /\ direct' = Called("execute", c, ex.result)
    /\ UNCHANGED <<process, index, answer, thread, finished>>

NextExecutor == CallExecute

SpecExecutor == Init /\ [][NextExecutor]_vars

\* ------------------------------------------------------------------ claims
\* The context the session map holds for the running (or last) call.
Session == heap[contexts[session_id]]

Validated == plan_result.success

IsEntry(e, agent, action) == e.agent = agent /\ e.action = action

\* C1: for every plan that passes validation, when process_query returns the
\* session's context holds exactly 1 + len(plan.steps) entries: the
\* Planner/create_plan entry followed by one entry per plan step.
C1_EntriesPerValidPlan ==
    (ret.returned /\ Validated) =>
        /\ Len(Session.entries) = 1 + Len(plan.steps)
        /\ IsEntry(Session.entries[1], "Planner", "create_plan")
        /\ \A n \in DOMAIN plan.steps :
              IsEntry(Session.entries[n + 1], plan.steps[n].agent, plan.steps[n].action)

\* A planner output that lacks `steps`, has an empty `steps` list or holds a
\* step whose agent is neither Retriever nor Executor.
Defective(obj) ==
    \/ "steps" \notin obj.fields
    \/ (obj.steps_is_list /\ obj.steps = <<>>)
    \/ \E n \in DOMAIN obj.steps : obj.steps[n].agent \notin {"Retriever", "Executor"}

Answered == response.kind \in {"json", "wrapped"}

\* C2: validation rejects every plan that lacks `steps`, has an empty `steps`
\* list or contains a step whose agent is not Retriever or Executor; for such
\* a planner output process_query dispatches no step, calls no Retriever or
\* Executor capability and returns success false.
C2_DefectivePlanRejected ==
    (Answered /\ Defective(response.obj)) =>
        /\ ~Validated
        /\ pc = "done"
        /\ step_results = <<>>
        /\ calls = <<>>
        /\ ret.returned /\ ~ret.success

C2_Witness ==
    /\ pc = "done"
    /\ Answered
    /\ Len(response.obj.steps) = 2
    /\ response.obj.steps[1].agent = "Retriever"
    /\ response.obj.steps[2].agent = "Planner"

\* A step result whose action neither the Retriever dispatch nor the
\* Executor's dispatcher knows.
Unrecognized(sr) ==
    \/ sr.agent = "Retriever" /\ sr.action \notin {"search", "search_by_document", "get_documents"}
    \/ sr.agent = "Executor" /\ sr.action \notin AvailableActions

\* C3: a dispatched step whose action is not recognized gets a StepResult with
\* success false, every later step of the plan is still dispatched, and the
\* run returns success true with context status completed_with_errors.
C3_UnrecognizedActionIsPartialFailure ==
    (ret.returned /\ \E n \in DOMAIN step_results : Unrecognized(step_results[n])) =>
        /\ \A n \in DOMAIN step_results :
              Unrecognized(step_results[n]) => ~step_results[n].success
        /\ Len(step_results) = Len(plan.steps)
        /\ ret.success
        /\ Session.status = "completed_with_errors"

\* C4: for every validated plan, whatever the steps' calls do, process_query
\* produces exactly one StepResult per plan step.
C4_OneStepResultPerStep ==
    (ret.returned /\ Validated) => Len(step_results) = Len(plan.steps)

\* C5: when Planner.plan returns success false, process_query logs exactly
\* one entry (Planner, create_plan), sets the status to error, calls no
\* Retriever or Executor capability and returns success false with the
\* session id.
C5_PlanningFailure ==
    (ret.returned /\ ~Validated) =>
        /\ Len(Session.entries) = 1
        /\ IsEntry(Session.entries[1], "Planner", "create_plan")
        /\ Session.status = "error"
        /\ calls = <<>>
        /\ step_results = <<>>
        /\ ~ret.success
        /\ ret.session_id = Session.session_id

C5_Witness ==
    /\ ret.returned
    /\ ~Validated
    /\ response.kind = "json"
    /\ response.obj.steps # <<>>

\* The run ended in the middle of its plan: a turn of the loop raised.
Faulted == pc = "done" /\ Validated /\ Len(step_results) < Len(plan.steps)

\* The messages the turn the run stopped at can raise.
FaultMessages ==
    {Dispatch(i, plan.steps[i], retrieved_content, tasks, reports, o).error : o \in
        {o \in Outcomes :
            Dispatch(i, plan.steps[i], retrieved_content, tasks, reports, o).raised}}

\* C6: process_query never raises to its caller: a call that is over has
\* returned a result with the session id, and an exception raised while the
\* plan is executed is turned into a result with success false and the
\* exception's message, the context status being error.
C6_FaultsAreReturned ==
    /\ (pc = "done") = ret.returned
    /\ ret.returned => ret.session_id = Session.session_id
    /\ Faulted =>
          /\ ~ret.success
          /\ ret.error \in FaultMessages
          /\ Session.status = "error"

C6_Witness == Faulted /\ Len(step_results) = 1 /\ step_results[1].success

C8_NoStateSkipped ==
    [][(pc' = "done" /\ pc # "done") => pc = "summarizing"]_vars

\* C8: a call goes planning, executing(1) .. executing(n), summarizing, done
\* in that order when the planner succeeds and no step raises; a failed
\* planning goes from planning to done and a step that raises goes from that
\* step to done; done is entered once per call, with the return.
C8_StateOrder ==
    [][/\ (pc' # pc \/ i' # i) =>
            \/ pc \in {"idle", "done"} /\ pc' = "planning"
            \/ pc = "planning" /\ pc' = "executing" /\ i' = 1 /\ plan_result'.success
            \/ pc = "planning" /\ pc' = "done" /\ ~plan_result'.success
            \/ pc = "executing" /\ i < Len(plan.steps) /\ pc' = "executing" /\ i' = i + 1
                 /\ Len(step_results') = i
            \/ pc = "executing" /\ i = Len(plan.steps) /\ pc' = "summarizing"
                 /\ Len(step_results') = i
            \/ pc = "executing" /\ pc' = "done" /\ ~ret'.success
            \/ pc = "summarizing" /\ pc' = "done" /\ ret'.success
       /\ (ret'.returned /\ ~ret.returned) = (pc' = "done" /\ pc # "done")
      ]_vars

C8_Witness ==
    /\ pc = "done" /\ ret.success
    /\ Len(plan.steps) = 2 /\ Len(step_results) = 2

\* The items the Retriever steps among the given step results put in the
\* buffer.
RECURSIVE RetrievedBy(_)
RetrievedBy(results) ==
    IF results = <<>> THEN <<>>
    ELSE LET sr == Head(results)
         IN (IF sr.agent = "Retriever" /\ sr.success
             THEN Items(sr.result.results) ELSE <<>>)
            \o RetrievedBy(Tail(results))

\* The buffer as the steps before the n-th of this run filled it.
BufferBefore(n) == RetrievedBy(SubSeq(step_results, 1, n - 1))

\* C9: when a summarize, analyze_content or create_checklist step is
\* dispatched while the buffer is not empty, the `content` handed to the
\* capability is the buffered items, each as "From <source>: <content>",
\* joined by blank lines in buffer order; the items are those the earlier
\* steps of the same run retrieved; no retrieved_content parameter is handed
\* over.
C9_ContentFromBuffer ==
    \A n \in DOMAIN calls :
        LET c == calls[n]
            buffer == BufferBefore(c.step)
        IN (c.agent = "Executor" /\ c.action \in ContentActions /\ buffer # <<>>) =>
              /\ c.ran
              /\ c.parameters["content"] =
                    Flatten([k \in DOMAIN buffer |->
                        (IF k = 1 THEN <<>> ELSE <<"\n\n">>)
                        \o <<"From ", buffer[k].source, ": ", buffer[k].content>>])
              /\ ~Has(c.parameters, "retrieved_content")

C9_Witness ==
    \E n \in DOMAIN calls :
        /\ calls[n].action = "summarize"
        /\ Has(calls[n].parameters, "content")
        /\ calls[n].parameters["content"] =
              <<"From ", "doc1.pdf", ": ", "alpha", "\n\n", "From ", "doc2.pdf", ": ", "beta">>

\* The parameters the planner gave the n-th step, before the driver touched
\* them.
Given(n) == response.obj.steps[n].parameters

\* C10: a create_task step whose parameters hold task_type and no title
\* creates a task whose title is the task_type value; neither the parameters
\* handed to the capability nor the stored task have a task_type field.
C10_TaskTypeBecomesTitle ==
    \A n \in DOMAIN calls :
        LET c == calls[n]
        IN (c.action = "create_task" /\ Has(Given(c.step), "task_type")
                /\ ~Has(Given(c.step), "title")) =>
              /\ c.ran
              /\ c.parameters["title"] = Given(c.step)["task_type"]
              /\ ~Has(c.parameters, "task_type")
              /\ LET made == step_results[c.step].result.payload[1]
                 IN /\ made.kind = "task"
                    /\ made.title = Given(c.step)["task_type"]
                    /\ tasks[made.ordinal].title = Given(c.step)["task_type"]
                    /\ "task_type" \notin DOMAIN tasks[made.ordinal]

C10_Witness ==
    /\ Len(tasks) = 2
    /\ tasks[1].title = "Call"
    /\ tasks[2].title = "Follow up"
    /\ Len(calls) = 2
    /\ ~Has(calls[2].parameters, "task_type")

\* The capability call behind a step result returned a failure marker: a
\* result with success false, or the error-carrying result a capability
\* builds when its language-model call faulted.
FailureMarked(sr) ==
    \/ ~sr.result.success
    \/ \E k \in DOMAIN sr.result.payload : sr.result.payload[k].error

\* C11: a step whose capability call raised or returned a failure marker
\* (the error-carrying result of a summarize, create_checklist or
\* analyze_content call whose model call faulted included) has a StepResult
\* with success false and is counted in final_summary.failed_steps, not in
\* successful_steps.
C11_FailureMarkedStepFails ==
    /\ \A n \in DOMAIN step_results :
          FailureMarked(step_results[n]) => ~step_results[n].success
    /\ (ret.returned /\ ret.success) =>
          /\ ret.final_summary.failed_steps =
                Cardinality({n \in DOMAIN step_results : FailureMarked(step_results[n])})
          /\ ret.final_summary.successful_steps =
                Cardinality({n \in DOMAIN step_results : ~FailureMarked(step_results[n])})

\* C12: once a ContextEntry is appended, its agent, action, input snapshot
\* and output snapshot never change and the entry is never removed, whatever
\* later steps of the same run or later runs do.
C12_EntriesNeverChange ==
    [][\A c \in DOMAIN heap : \A n \in DOMAIN heap[c].entries :
            /\ n \in DOMAIN heap'[c].entries
            /\ heap'[c].entries[n] = heap[c].entries[n]
            /\ (c = context /\ context' = context) =>
                  EntryData(heap[c].entries[n])' = EntryData(heap[c].entries[n])]_vars

\* The text the model returned parses as a whole / from its first opening
\* brace to its last closing brace to an object that passes validation.
FullPasses == FullParse(response).ok /\ ValidatePlan(FullParse(response).obj)

SubPasses == SubParse(response).ok /\ ValidatePlan(SubParse(response).obj)

Planned == response.kind # "none"

\* C13: Planner.plan returns success true exactly when the full response
\* parses as an object that passes validation, or the full response fails to
\* parse and the text from its first opening brace to its last closing brace
\* parses and passes validation; the substring is tried only after the full
\* parse has failed.
C13_PlanSucceedsExactlyWhen ==
    Planned =>
        /\ plan_result.success =
              (FullPasses \/ (~FullParse(response).ok /\ SubPasses))
        /\ plan_result.success =>
              plan_result.plan = (IF FullParse(response).ok THEN FullParse(response).obj
                                  ELSE SubParse(response).obj)

C13_Witness ==
    /\ Planned
    /\ response.kind = "listed"
    /\ SubPasses
    /\ ~plan_result.success
    /\ plan_result.error = "Generated plan has invalid structure"

\* C14: Planner.plan never raises, and whenever the model call returned text
\* but both parse attempts failed or the parsed object failed validation, the
\* result has success false and raw_response equal to the model's raw text.
\* (The raw text is taken without its leading and trailing white space, as the
\* planner reads it.)
C14_FailureCarriesRawText ==
    Planned =>
        /\ plan_result.success \/ plan_result.error # ""
        /\ (response.kind # "api_error"
              /\ ~(FullPasses \/ (~FullParse(response).ok /\ SubPasses))) =>
              /\ ~plan_result.success
              /\ plan_result.raw_response = Strip(response)

\* The results the searches of the last search_multiple_queries call found,
\* query after query.
FoundInOrder ==
    AllResults(answer.index, answer.queries, answer.k, answer.faults)

\* C15: search_multiple_queries returns every chunk found by at least one of
\* its queries exactly once (the first occurrence is kept), ordered by
\* descending similarity score over the union of the results, with ranks
\* 1..N.
C15_UnionOfQueries ==
    answer.op = "search_multiple_queries" =>
        LET found == FoundInOrder
            results == answer.result.results
            First(content) ==
                found[CHOOSE n \in DOMAIN found :
                        /\ found[n].content = content
                        /\ \A m \in 1..(n - 1) : found[m].content # content]
        IN /\ {results[n].content : n \in DOMAIN results} =
                 {found[n].content : n \in DOMAIN found}
           /\ \A n, m \in DOMAIN results :
                 results[n].content = results[m].content => n = m
           /\ \A n \in DOMAIN results :
                 /\ results[n].similarity_score =
                       First(results[n].content).similarity_score
                 /\ results[n].rank = n
                 /\ n < Len(results) =>
                       results[n].similarity_score >= results[n + 1].similarity_score

\* C16: RetrieverAgent.search and search_by_document never raise: whenever
\* the vector store faults they return a result with success false, an error
\* message, results == [] and total_results == 0.
C16_SearchFaultIsResult ==
    (answer.op \in {"search", "search_by_document"} /\ answer.faults[1]) =>
        /\ ~answer.result.success
        /\ answer.result.error # ""
        /\ answer.result.results = <<>>
        /\ answer.result.total_results = 0

C16_Witness ==
    /\ answer.op = "search"
    /\ answer.faults[1]
    /\ SimilaritySearch(answer.index, answer.queries[1], answer.k) # <<>>
    /\ ~answer.result.success

\* C18: for a validated plan that consists of a single Retriever step with
\* action get_documents, process_query returns a final summary with
\* successful_steps = 1 and failed_steps = 0 and leaves the context status at
\* completed.
C18_GetDocumentsCompletes ==
    (ret.returned /\ Validated /\ Len(plan.steps) = 1
        /\ plan.steps[1].agent = "Retriever" /\ plan.steps[1].action = "get_documents") =>
        /\ ret.success
        /\ ret.final_summary.successful_steps = 1
        /\ ret.final_summary.failed_steps = 0
        /\ Session.status = "completed"

\* C19: every process_query call creates a new ConversationContext under a
\* session id that no earlier call used; the earlier contexts stay in the
\* session map, addressable by their session id, with status and entries
\* unchanged by any later call.
C19_SessionsAreKept ==
    [][/\ Len(heap') > Len(heap) =>
            /\ Len(heap') = Len(heap) + 1
            /\ session_id' \notin DOMAIN contexts
            /\ contexts'[session_id'] = Len(heap')
            /\ heap'[Len(heap')].session_id = session_id'
       /\ \A sid \in DOMAIN contexts :
            /\ sid \in DOMAIN contexts'
            /\ contexts'[sid] = contexts[sid]
            /\ heap[contexts[sid]].session_id = sid
            /\ contexts[sid] # context' =>
                  heap'[contexts[sid]] = heap[contexts[sid]]
      ]_vars

\* C20: task and report identifiers are not safe under concurrent creation.
\* Whatever the interleaving of create_task (generate_report) calls on one
\* ExecutorAgent, every call that returned has appended its artifact, whose
\* ordinal is the collection size its call read plus one: at most the
\* artifact's position, and smaller when another call appended in between,
\* so that two calls that read the same size store the same ordinal.
C20_InterleavedCreations ==
    /\ Len(tasks) = finished.tasks
    /\ Len(reports) = finished.reports
    /\ \A n \in DOMAIN tasks : tasks[n].ordinal \in 1..n
    /\ \A n \in DOMAIN reports : reports[n].ordinal \in 1..n
    /\ \A t \in Threads :
          /\ thread[t].at = "create_task" => thread[t].made.ordinal \in 1..(Len(tasks) + 1)
          /\ thread[t].at = "generate_report" =>
                thread[t].made.ordinal \in 1..(Len(reports) + 1)

\* Two create_task calls read the same size and both returned.
C20_Witness ==
    /\ finished.tasks = 2
    /\ Len(tasks) = 2
    /\ tasks[1].ordinal = 1
    /\ tasks[2].ordinal = 1
    /\ \A t \in Threads : thread[t].at = "outside"

\* C21: within one process_query run the retrieved-content buffer is
\* append-only: it grows only when a Retriever step succeeds with a non-empty
\* results list, by one {source, content} item per returned result in result
\* order; existing items are never removed, reordered or deduplicated, so the
\* buffer at any step is a prefix of the buffer at every later step.
C21_BufferAppendOnly ==
    [][pc' # "planning" =>
          /\ Len(retrieved_content') >= Len(retrieved_content)
          /\ SubSeq(retrieved_content', 1, Len(retrieved_content)) = retrieved_content
          /\ retrieved_content' # retrieved_content =>
                /\ Len(step_results') = Len(step_results) + 1
                /\ LET sr == step_results'[Len(step_results')]
                       added == SubSeq(retrieved_content', Len(retrieved_content) + 1,
                                       Len(retrieved_content'))
                   IN /\ sr.agent = "Retriever"
                      /\ sr.success
                      /\ sr.result.results # <<>>
                      /\ Len(added) = Len(sr.result.results)
                      /\ \A r \in DOMAIN added :
                            /\ added[r].source = sr.result.results[r].source_file
                            /\ added[r].content = sr.result.results[r].content
          /\ (Len(step_results') = Len(step_results) + 1
                /\ retrieved_content' = retrieved_content) =>
                LET sr == step_results'[Len(step_results')]
                IN ~(sr.agent = "Retriever" /\ sr.success /\ sr.result.results # <<>>)
      ]_vars

\* Two searches of one run: the second found a chunk the first had found.
C21_Witness ==
    /\ Len(step_results) = 2
    /\ Len(retrieved_content) = 3
    /\ retrieved_content[1] = retrieved_content[3]
    /\ retrieved_content[2] # retrieved_content[1]

\* The source files of the chunks the successful Retriever steps returned.
FilesRetrieved ==
    UNION {{step_results[n].result.results[r].source_file :
                r \in DOMAIN step_results[n].result.results} :
           n \in {m \in DOMAIN step_results :
                    step_results[m].agent = "Retriever" /\ step_results[m].success}}

\* C22: in the final summary of every successful run, total_steps equals the
\* number of plan steps, successful_steps + failed_steps = total_steps with
\* each StepResult counted in exactly one of the two, and retrieved_documents
\* equals the number of distinct source values in the retrieved-content
\* buffer.
C22_SummaryCounts ==
    (ret.returned /\ ret.success) =>
        LET fs == ret.final_summary
        IN /\ fs.total_steps = Len(plan.steps)
           /\ fs.total_steps = Len(step_results)
           /\ fs.successful_steps + fs.failed_steps = fs.total_steps
           /\ fs.successful_steps =
                 Cardinality({n \in DOMAIN step_results : step_results[n].success})
           /\ fs.failed_steps =
                 Cardinality({n \in DOMAIN step_results : ~step_results[n].success})
           /\ fs.retrieved_documents =
                 Cardinality({retrieved_content[n].source : n \in DOMAIN retrieved_content})
           /\ fs.retrieved_documents = Cardinality(FilesRetrieved)

\* Two searches left three items of two documents in the buffer.
C22_Witness ==
    /\ ret.returned /\ ret.success
    /\ Len(retrieved_content) = 3
    /\ ret.final_summary.retrieved_documents = 2
    /\ ret.final_summary.total_steps = 2

\* The step's action has an achievement template.
HasTemplate(sr) ==
    \/ sr.agent = "Retriever"
    \/ sr.agent = "Executor"
         /\ sr.action \in {"create_task", "summarize", "generate_report", "create_checklist"}

\* The positions of the steps that contribute to key_achievements, in order.
Contributing ==
    LET Contributes(n) == step_results[n].success /\ HasTemplate(step_results[n])
    IN SelectSeq([n \in DOMAIN step_results |-> n], Contributes)

\* C23: final_summary.key_achievements holds, in step order, at most one
\* string per step: failed steps contribute nothing, successful steps whose
\* action has no achievement template (such as analyze_content) contribute
\* nothing, and every successful step whose action has a template contributes
\* exactly one string; a successful create_task contributes
\* "Created task: <title>", the title being the one of the task it stored.
\* (Successful and failed are the StepResult's success flag.)
C23_KeyAchievements ==
    (ret.returned /\ ret.success) =>
        LET ka == ret.final_summary.key_achievements
        IN /\ Len(ka) = Len(Contributing)
           /\ \A k \in DOMAIN ka :
                 LET sr == step_results[Contributing[k]]
                 IN /\ sr.agent = "Retriever" => ka[k][1] = "Retrieved "
                    /\ sr.action = "summarize" => ka[k] = <<"Generated content summary">>
                    /\ sr.action = "generate_report" => ka[k][1] = "Generated report: "
                    /\ sr.action = "create_checklist" => ka[k][1] = "Created checklist with "
                    /\ sr.action = "create_task" =>
                          ka[k] = <<"Created task: ",
                                    tasks[sr.result.payload[1].ordinal].title>>

\* An analyze_content step succeeded and a create_task step followed.
C23_Witness ==
    /\ ret.returned /\ ret.success
    /\ Len(step_results) = 2
    /\ step_results[1].action = "analyze_content" /\ step_results[1].success
    /\ ret.final_summary.key_achievements = <<<<"Created task: ", "Follow up">>>>

\* The step result echoes the step the planner wrote.
Echoes(sr, step) ==
    /\ sr.step_number = step.step_number
    /\ sr.agent = step.agent
    /\ sr.action = step.action
    /\ sr.description = step.description

\* C24: steps are dispatched strictly one at a time in the sequence order of
\* plan.steps, whatever their step_number values (non-contiguous, decreasing
\* or repeated), and step_results[i] echoes the step_number, agent, action
\* and description of plan.steps[i] for every i.
C24_SequenceOrder ==
    [][/\ (pc' # "planning" /\ step_results' # step_results) =>
            /\ pc = "executing"
            /\ Len(step_results) = i - 1
            /\ step_results' = Append(step_results, step_results'[i])
            /\ Echoes(step_results'[i], response.obj.steps[i])
            /\ Echoes(step_results'[i], plan'.steps[i])
            /\ \A n \in DOMAIN calls' : n > Len(calls) => calls'[n].step = i
       /\ pc' = "executing" => Len(step_results') = i' - 1
       /\ \A n \in DOMAIN step_results' : Echoes(step_results'[n], response'.obj.steps[n])
      ]_vars

\* Two steps numbered 2 and 1 ran in the order the plan lists them.
C24_Witness ==
    /\ ret.returned /\ ret.success
    /\ Len(step_results) = 2
    /\ step_results[1].step_number = 2 /\ step_results[1].action = "search"
    /\ step_results[2].step_number = 1 /\ step_results[2].action = "create_task"
    /\ Len(calls) = 2 /\ calls[1].action = "search" /\ calls[2].action = "create_task"

\* How often a call did the operation op.
Times(ops, op) == Cardinality({n \in DOMAIN ops : ops[n] = op})

\* C25: each invocation of Planner.plan or Planner.refine_plan issues exactly
\* one model call, whether the response parses, needs the substring fallback
\* or fails validation: the call comes first and there is no retry and no
\* re-prompting.  (process_query calls plan once per run, outside its loop.)
C25_OneModelCall ==
    direct.op \in {"plan", "refine_plan"} =>
        /\ Times(direct.out.ops, "create") = 1
        /\ direct.out.ops[1] = "create"

\* refine_plan fell back to the substring, which did not pass validation.
C25_Witness ==
    /\ direct.op = "refine_plan"
    /\ direct.arg.kind = "wrapped"
    /\ ~direct.out.result.success
    /\ direct.out.ops = <<"create", "loads", "search", "loads", "validate">>

\* The marker a trimmed line starts with: its length, 0 when it starts with
\* none.
MarkerLen(line) ==
    IF Len(line) >= 2 /\ line[1] \in {"1", "2", "3", "4", "5", "6", "7", "8", "9"}
          /\ line[2] = "."
    THEN 2
    ELSE IF Len(line) >= 1 /\ line[1] \in {"-", Bullet} THEN 1
    ELSE 0

\* The lines of the model's answer that start with a marker, trimmed, in
\* line order.
MarkedLines(text) ==
    LET lines == SplitLines(text)
        trimmed == [n \in DOMAIN lines |-> Trimmed(lines[n])]
        Marked(line) == MarkerLen(line) > 0
    IN SelectSeq(trimmed, Marked)

\* C26: create_checklist turns the model's text into items line by line:
\* every line whose trimmed text starts with one of the markers "1.".."9.",
\* "-" or the bullet yields exactly one item (in line order, completed = false)
\* whose text is that line with the marker removed, every other line is
\* dropped, and total_items equals the number of items.
C26_ChecklistItems ==
    (direct.op = "create_checklist" /\ ~direct.arg.fault) =>
        LET marked == MarkedLines(direct.arg.text)
            checklist == direct.out.checklist
        IN /\ Len(checklist.items) = Len(marked)
           /\ checklist.total_items = Len(checklist.items)
           /\ \A n \in DOMAIN checklist.items :
                 /\ ~checklist.items[n].completed
                 /\ n \in DOMAIN marked =>
                       checklist.items[n].item =
                          Trimmed(SubSeq(marked[n], MarkerLen(marked[n]) + 1, Len(marked[n])))

\* The entries a call has logged so far: the planner's, then one per step
\* result.
Logged(l) == IF l.response = NoResponse THEN 0 ELSE 1 + Len(l.step_results)

\* The context the call created holds the entries the call logged.
OwnEntries(l) ==
    l.pc # "idle" =>
        /\ Len(heap[l.context].entries) = Logged(l)
        /\ Logged(l) > 0 => IsEntry(heap[l.context].entries[1], "Planner", "create_plan")
        /\ \A n \in DOMAIN l.step_results :
              IsEntry(heap[l.context].entries[n + 1],
                      l.step_results[n].agent, l.step_results[n].action)

\* C27: every ContextEntry logged by a process_query run is appended to the
\* ConversationContext that this run created under its own session id, also
\* when two process_query runs on the same orchestrator instance are
\* interleaved (a second run starting between two log calls of the first).
C27_EntriesInOwnContext ==
    /\ OwnEntries(Running)
    /\ OwnEntries(parked)

\* C28: because validation only admits steps whose agent is Retriever or
\* Executor, no run of process_query ever takes the unknown-agent branch: no
\* StepResult produced by process_query carries the error
\* "Unknown agent: <name>".
C28_NoUnknownAgent ==
    \A n \in DOMAIN step_results :
        /\ step_results[n].agent \in {"Retriever", "Executor"}
        /\ step_results[n].result.error # "Unknown agent"

\* A run went through two steps, and one failed for its action.
C28_Witness ==
    /\ ret.returned /\ ret.success
    /\ Len(step_results) = 2
    /\ step_results[1].result.error = "Unknown retriever action"
    /\ step_results[2].result.error = "Unknown action"

\* C29: in every reachable state and for every ConversationContext,
\* current_step equals the number of entries; both change only through
\* add_entry (a log_agent_action call on the active context), which appends
\* exactly one entry and increments current_step by one, and
\* log_agent_action called while no context is active raises without adding
\* an entry to any context.
C29_StepCountsEntries ==
    [][/\ \A c \in DOMAIN heap' : heap'[c].current_step = Len(heap'[c].entries)
       /\ \A c \in DOMAIN heap :
            (heap'[c].entries # heap[c].entries
                \/ heap'[c].current_step # heap[c].current_step) =>
               /\ direct'.op = "log_agent_action"
               /\ direct'.out = "entry"
               /\ c = active_context
               /\ heap'[c].entries = Append(heap[c].entries, direct'.arg)
               /\ heap'[c].current_step = heap[c].current_step + 1
       /\ (direct'.op = "log_agent_action" /\ active_context = 0) =>
               /\ direct'.out = "ValueError"
               /\ heap' = heap
       /\ (direct'.op = "log_agent_action" /\ active_context # 0) =>
               heap'[active_context].entries =
                   Append(heap[active_context].entries, direct'.arg)
      ]_vars

\* The first context was logged to, then the second, twice.
C29_Witness ==
    /\ Len(heap) = 2
    /\ Len(heap[1].entries) = 1 /\ heap[1].current_step = 1
    /\ Len(heap[2].entries) = 2 /\ heap[2].current_step = 2
    /\ direct.op = "log_agent_action"

\* The collection after the step begins with the collection before it.
Grown(before, after) ==
    Len(after) >= Len(before) /\ SubSeq(after, 1, Len(before)) = before

\* C30: when creations on one ExecutorAgent are not interleaved, the task
\* and report collections only grow: the n-th successful create_task stores
\* a task with ordinal n, stored identifiers have pairwise distinct ordinals,
\* nothing is ever removed, and a create_task or generate_report call that
\* fails (unknown action, missing title or sections, malformed section)
\* leaves both collections unchanged.
C30_CollectionsOnlyGrow ==
    [][/\ Grown(tasks, tasks') /\ Grown(reports, reports')
       /\ \A n \in DOMAIN tasks' : tasks'[n].ordinal = n
       /\ \A n \in DOMAIN reports' : reports'[n].ordinal = n
       /\ \A n, m \in DOMAIN tasks' : tasks'[n].ordinal = tasks'[m].ordinal => n = m
       /\ direct'.op = "execute" =>
            LET c == direct'.arg
            IN /\ ~direct'.out.success => (tasks' = tasks /\ reports' = reports)
               /\ (direct'.out.success /\ c.action = "create_task") =>
                     /\ tasks' = Append(tasks, [ordinal |-> Len(tasks) + 1,
                                                 title |-> c.parameters["title"]])
                     /\ reports' = reports
               /\ (direct'.out.success /\ c.action = "generate_report") =>
                     /\ Len(reports') = Len(reports) + 1
                     /\ tasks' = tasks
               /\ direct'.out.success =
                     (/\ c.action \in {"create_task", "generate_report"}
                      /\ Has(c.parameters, "title")
                      /\ c.action = "generate_report" =>
                            (Has(c.parameters, "sections")
                               /\ \A n \in DOMAIN c.parameters["sections"] :
                                     ~Has(c.parameters["sections"][n], "string")))
      ]_vars

\* Two tasks and a report are stored, and a generate_report call with a
\* malformed section has just failed.
C30_Witness ==
    /\ Len(tasks) = 2 /\ tasks[1].ordinal = 1 /\ tasks[2].ordinal = 2
    /\ Len(reports) = 1
    /\ direct.op = "execute"
    /\ direct.arg.action = "generate_report"
    /\ Has(direct.arg.parameters, "title") /\ Has(direct.arg.parameters, "sections")
    /\ ~direct.out.success

====
